---- MODULE Spec2Model ----
(***************************************************************************)
(* SignalPy: the Filter expression builder (class Filter) and the          *)
(* per-language maps of class Notification, as state machines.             *)
(*                                                                         *)
(* A Python dict is modelled as the sequence of its <<key, value>> pairs   *)
(* in insertion order (the order json.dumps renders them in); a Python     *)
(* value is a tagged record (PyInt, PyStr) so that values of different     *)
(* Python types can sit in one list.  An exception raised by a call is an  *)
(* outcome of the call: the caller may catch it and go on using the        *)
(* object.                                                                 *)
(***************************************************************************)
EXTENDS Integers, Sequences, FiniteSets, TLC

VARIABLES
    values,     \* Filter._values: the ordered list of term dicts
    lastOp,     \* name of the last method called ("" before any call)
    args,       \* the arguments of the last call
    outcome,    \* how the last call ended: "init", "self", "None", "str",
                \* "Exception" (raise Exception(...)) or "TypeError"
    out,        \* the string the last call returned when outcome = "str"
    before,     \* history: Filter._values as it was when the last call began
    repeat,     \* history: how many to_json calls in a row ended last
    log,        \* history: names of the calls that appended a term, in order
    data,       \* Notification._data, restricted to its three language maps
    hist,       \* history: per map, language code -> message of the most
                \* recent add_content/add_heading/add_subtitle call for it
    bulk        \* history: the maps a bulk call (add_contents, add_headings,
                \* add_subtitles) was made on

vars ==
    <<values, lastOp, args, outcome, out, before, repeat, log, data, hist, bulk>>

(***************************************************************************)
(* Bounds of the exploration.  Every call sequence is explored while the   *)
(* builder holds fewer than MaxTerms terms; sequences made of the methods  *)
(* of the chaining example only (ChainOps) are explored up to MaxChain     *)
(* terms.                                                                  *)
(***************************************************************************)
MaxTerms == 2
MaxChain == 3
\* to_json is called at most MaxRepeat times in a row
MaxRepeat == 2

ChainOps == {"session_count", "session_time", "and_", "or_"}

(***************************************************************************)
(* Python values                                                           *)
(***************************************************************************)
PyInt(n) == [kind |-> "int", n |-> n, s |-> ""]
PyStr(s) == [kind |-> "str", n |-> 0, s |-> s]

\* an optional argument: <<>> is None, <<s>> is the string s
None == <<>>
Some(s) == <<s>>
\* Python truthiness of an optional string: None and "" are falsy
Truthy(key) == key # None /\ key[1] # ""

\* the arguments of a call: an optional key, an optional relation and the
\* remaining values in the order of the signature
Args(key, relation, value) == [key |-> key, relation |-> relation, value |-> value]
NoArgs == Args(None, None, <<>>)

(***************************************************************************)
(* class Relation(Enum)                                                    *)
(***************************************************************************)
Relation == {"GreaterThan", "LowerThan", "Equal", "NotEqual", "Exists", "NotExists"}

\* Relation.<member>.value
RelationValue(relation) ==
    CASE relation = "GreaterThan" -> ">"
      [] relation = "LowerThan"   -> "<"
      [] relation = "Equal"       -> "="
      [] relation = "NotEqual"    -> "!="
      [] relation = "Exists"      -> "exists"
      [] relation = "NotExists"   -> "not_exists"

(***************************************************************************)
(* Inputs the calls draw from                                              *)
(***************************************************************************)
HoursAgo     == {PyInt(10)}
Counts       == {PyInt(5), PyInt(10)}
Seconds      == {PyInt(2000)}
Amounts      == {PyInt(10)}
SkuKeys      == {"sku1", "country"}
TagKeys      == {"", "vip"}
TagValues    == {PyStr(""), PyStr("gold")}
LangCodes    == {PyStr("en")}
Versions     == {PyStr("1.0")}
CountryCodes == {PyStr("US"), PyStr("CA")}
Radii        == {PyInt(10)}
Lats         == {PyInt(54)}
Longs        == {PyInt(45)}

(***************************************************************************)
(* json.dumps with the default separators (", " and ": ").  The strings of *)
(* the input sets hold no character that json.dumps escapes.               *)
(***************************************************************************)
DumpsValue(v) ==
    IF v.kind = "int" THEN ToString(v.n) ELSE "\"" \o v.s \o "\""

RECURSIVE DumpsPairs(_)
DumpsPairs(d) ==
    IF d = <<>> THEN ""
    ELSE "\"" \o d[1][1] \o "\": " \o DumpsValue(d[1][2])
         \o (IF Len(d) > 1 THEN ", " ELSE "") \o DumpsPairs(Tail(d))

DumpsDict(d) == "{" \o DumpsPairs(d) \o "}"

RECURSIVE DumpsItems(_)
DumpsItems(l) ==
    IF l = <<>> THEN ""
    ELSE DumpsDict(l[1]) \o (IF Len(l) > 1 THEN ", " ELSE "") \o DumpsItems(Tail(l))

DumpsList(l) == "[" \o DumpsItems(l) \o "]"

(***************************************************************************)
(* class Filter                                                            *)
(***************************************************************************)

\* accepts without its membership test: every relation passes
acceptsAny(relations, provided) == TRUE

\* Filter.accepts: TRUE when provided is one of relations; FALSE stands for
\* raise Exception('Invalid relation was provided')
accepts(relations, provided) == \E relation \in relations : provided = relation

\* the dict literal of _base_filter
PredicateDict(field, relation, value) ==
    << <<"field", PyStr(field)>>,
       <<"relation", PyStr(RelationValue(relation))>>,
       <<"value", value>> >>

\* Filter._base_filter: with a truthy key the statement json['key'] = key
\* assigns into the json module and raises TypeError before the append
_base_filter(vals, field, relation, value, key) ==
    IF Truthy(key)
    THEN [values |-> vals, outcome |-> "TypeError"]
    ELSE [values |-> Append(vals, PredicateDict(field, relation, value)),
          outcome |-> "self"]

\* the bound on the exploration (see MaxTerms, MaxChain)
CanCall(op) ==
    \/ Len(values) < MaxTerms
    \/ /\ Len(values) < MaxChain
       /\ op \in ChainOps
       /\ \A i \in 1..Len(log) : log[i] \in ChainOps

\* a call of method op ends: the list is vals, the call ended as oc
Return(op, a, vals, oc) ==
    /\ values' = vals
    /\ lastOp' = op
    /\ args' = a
    /\ outcome' = oc
    /\ out' = ""
    /\ before' = values
    /\ repeat' = 0
    /\ log' = IF Len(vals) > Len(values) THEN Append(log, op) ELSE log
    /\ UNCHANGED <<data, hist, bulk>>

\* the methods that validate the relation and end with
\* "return self._base_filter(...)"
last_session(relation, hours_ago) ==
    LET a == Args(None, Some(relation), <<hours_ago>>)
        r == _base_filter(values, "last_session", relation, hours_ago, None)
    IN  /\ CanCall("last_session")
        /\ IF accepts({"GreaterThan", "LowerThan"}, relation)
           THEN Return("last_session", a, r.values, r.outcome)
           ELSE Return("last_session", a, values, "Exception")

first_session(relation, hours_ago) ==
    LET a == Args(None, Some(relation), <<hours_ago>>)
        r == _base_filter(values, "first_session", relation, hours_ago, None)
    IN  /\ CanCall("first_session")
        /\ IF accepts({"GreaterThan", "LowerThan"}, relation)
           THEN Return("first_session", a, r.values, r.outcome)
           ELSE Return("first_session", a, values, "Exception")

session_count(relation, count) ==
    LET a == Args(None, Some(relation), <<count>>)
        r == _base_filter(values, "session_count", relation, count, None)
    IN  /\ CanCall("session_count")
        /\ IF accepts({"GreaterThan", "LowerThan", "Equal", "NotEqual"}, relation)
           THEN Return("session_count", a, r.values, r.outcome)
           ELSE Return("session_count", a, values, "Exception")

session_time(relation, seconds) ==
    LET a == Args(None, Some(relation), <<seconds>>)
        r == _base_filter(values, "session_time", relation, seconds, None)
    IN  /\ CanCall("session_time")
        /\ IF accepts({"GreaterThan", "LowerThan"}, relation)
           THEN Return("session_time", a, r.values, r.outcome)
           ELSE Return("session_time", a, values, "Exception")

amount_spent(relation, amount) ==
    LET a == Args(None, Some(relation), <<amount>>)
        r == _base_filter(values, "amount_spent", relation, amount, None)
    IN  /\ CanCall("amount_spent")
        /\ IF accepts({"GreaterThan", "LowerThan", "Equal"}, relation)
           THEN Return("amount_spent", a, r.values, r.outcome)
           ELSE Return("amount_spent", a, values, "Exception")

\* the methods below call _base_filter without returning its result: when
\* _base_filter returns, the method returns None

\* bought_sku passes the caller's key as the field name
bought_sku(key, relation, amount) ==
    LET a == Args(Some(key), Some(relation), <<amount>>)
        r == _base_filter(values, key, relation, amount, None)
    IN  /\ CanCall("bought_sku")
        /\ IF accepts({"GreaterThan", "LowerThan", "Equal"}, relation)
           THEN Return("bought_sku", a, r.values, IF r.outcome = "self" THEN "None" ELSE r.outcome)
           ELSE Return("bought_sku", a, values, "Exception")

\* tag does not call accepts; it passes key=key
tag(key, relation, value) ==
    LET a == Args(Some(key), Some(relation), <<value>>)
        r == _base_filter(values, "tag", relation, value, Some(key))
    IN  /\ CanCall("tag")
        /\ Return("tag", a, r.values, IF r.outcome = "self" THEN "None" ELSE r.outcome)

language(relation, lang) ==
    LET a == Args(None, Some(relation), <<lang>>)
        r == _base_filter(values, "language", relation, lang, None)
    IN  /\ CanCall("language")
        /\ IF accepts({"Equal", "NotEqual"}, relation)
           THEN Return("language", a, r.values, IF r.outcome = "self" THEN "None" ELSE r.outcome)
           ELSE Return("language", a, values, "Exception")

app_version(relation, version) ==
    LET a == Args(None, Some(relation), <<version>>)
        r == _base_filter(values, "app_version", relation, version, None)
    IN  /\ CanCall("app_version")
        /\ IF accepts({"GreaterThan", "LowerThan", "Equal", "NotEqual"}, relation)
           THEN Return("app_version", a, r.values, IF r.outcome = "self" THEN "None" ELSE r.outcome)
           ELSE Return("app_version", a, values, "Exception")

\* location appends its dict itself and returns self
location(radius, lat, long) ==
    /\ CanCall("location")
    /\ Return("location", Args(None, None, <<radius, lat, long>>),
              Append(values, << <<"radius", radius>>, <<"lat", lat>>, <<"long", long>> >>),
              "self")

country(country_code) ==
    LET r == _base_filter(values, "country", "Equal", country_code, None)
    IN  /\ CanCall("country")
        /\ Return("country", Args(None, None, <<country_code>>), r.values, r.outcome)

\* and_ with a placement check: it raises on an empty list and after an
\* operator marker
andStrict ==
    /\ CanCall("and_")
    /\ IF values = <<>> \/ values[Len(values)][1][1] = "operator"
       THEN Return("and_", NoArgs, values, "Exception")
       ELSE Return("and_", NoArgs, Append(values, << <<"operator", PyStr("AND")>> >>), "self")

\* the properties and_ and or_
and_ ==
    /\ CanCall("and_")
    /\ Return("and_", NoArgs, Append(values, << <<"operator", PyStr("AND")>> >>), "self")

or_ ==
    /\ CanCall("or_")
    /\ Return("or_", NoArgs, Append(values, << <<"operator", PyStr("OR")>> >>), "self")

\* to_json rendering the terms last to first
ToJsonReversed(vals) ==
    DumpsList([i \in 1..Len(vals) |-> vals[Len(vals) + 1 - i]])

\* Filter.to_json: json.dumps(self._values)
ToJson(vals) == DumpsList(vals)

\* to_json emptying the list it has rendered
toJsonDraining ==
    /\ repeat < MaxRepeat
    /\ values' = <<>>
    /\ lastOp' = "to_json"
    /\ args' = NoArgs
    /\ outcome' = "str"
    /\ out' = ToJson(values)
    /\ before' = values
    /\ repeat' = repeat + 1
    /\ UNCHANGED <<log, data, hist, bulk>>

to_json ==
    /\ repeat < MaxRepeat
    /\ values' = values
    /\ lastOp' = "to_json"
    /\ args' = NoArgs
    /\ outcome' = "str"
    /\ out' = ToJson(values)
    /\ before' = values
    /\ repeat' = repeat + 1
    /\ UNCHANGED <<log, data, hist, bulk>>

(***************************************************************************)
(* class Notification: the three per-language maps of _data and the six    *)
(* methods that write them.  A dict is a function on its keys here (the    *)
(* order of the keys plays no part).                                       *)
(***************************************************************************)
Langs == {"en", "es"}
Messages == {"Hey There!", "Hola"}
MapKeys == {"contents", "headings", "subtitle"}

EmptyDict == [k \in {} |-> ""]
\* d[k] = v
SetItem(d, k, v) == [x \in DOMAIN d \cup {k} |-> IF x = k THEN v ELSE d[x]]

\* the attribute names of a dict object: hasattr(self._data, name) looks name
\* up among the attributes of the dict, not among its keys
DictAttributes ==
    {"clear", "copy", "fromkeys", "get", "items", "keys", "pop", "popitem",
     "setdefault", "update", "values"}
hasattr_dict(name) == name \in DictAttributes

\* the body shared by add_content, add_heading and add_subtitle
add_localized(op, name, lang_code, message) ==
    LET d1 == IF ~hasattr_dict(name) THEN SetItem(data, name, EmptyDict) ELSE data
    IN  /\ data' = SetItem(d1, name, SetItem(d1[name], lang_code, message))
        /\ hist' = SetItem(hist, name, SetItem(hist[name], lang_code, message))
        /\ lastOp' = op
        /\ args' = Args(Some(lang_code), None, <<PyStr(message)>>)
        /\ outcome' = "self"
        /\ UNCHANGED <<values, out, before, repeat, log, bulk>>

add_content(lang_code, message) ==
    add_localized("add_content", "contents", lang_code, message)

add_heading(lang_code, heading) ==
    add_localized("add_heading", "headings", lang_code, heading)

add_subtitle(lang_code, subtitle) ==
    add_localized("add_subtitle", "subtitle", lang_code, subtitle)

\* the dicts the bulk calls are given
JsonInputs == {EmptyDict, [k \in {"es"} |-> "Hola"]}

\* the body shared by add_contents, add_headings and add_subtitles: the map
\* is reset as in the single-entry methods, then
\* self._data[name].items() + json_dict.items() raises TypeError (dict views
\* have no +), whatever the dict given, before anything is stored
add_bulk(op, name, json_dict) ==
    LET d1 == IF ~hasattr_dict(name) THEN SetItem(data, name, EmptyDict) ELSE data
    IN  /\ data' = d1
        /\ bulk' = bulk \cup {name}
        /\ lastOp' = op
        /\ args' = Args(None, None, <<json_dict>>)
        /\ outcome' = "TypeError"
        /\ UNCHANGED <<values, out, before, repeat, log, hist>>

add_contents(json_content) == add_bulk("add_contents", "contents", json_content)

add_headings(json_heading) == add_bulk("add_headings", "headings", json_heading)

add_subtitles(json_subtitles) == add_bulk("add_subtitles", "subtitle", json_subtitles)

\* Filter.__init__ and Notification.__init__
Init ==
    /\ values = <<>>
    /\ lastOp = ""
    /\ args = NoArgs
    /\ outcome = "init"
    /\ out = ""
    /\ before = <<>>
    /\ repeat = 0
    /\ log = <<>>
    /\ data = EmptyDict
    /\ hist = [k \in MapKeys |-> EmptyDict]
    /\ bulk = {}

\* the calls on a Filter
Next ==
    \/ \E relation \in Relation, hours_ago \in HoursAgo : last_session(relation, hours_ago)
    \/ \E relation \in Relation, hours_ago \in HoursAgo : first_session(relation, hours_ago)
    \/ \E relation \in Relation, count \in Counts : session_count(relation, count)
    \/ \E relation \in Relation, seconds \in Seconds : session_time(relation, seconds)
    \/ \E relation \in Relation, amount \in Amounts : amount_spent(relation, amount)
    \/ \E key \in SkuKeys, relation \in Relation, amount \in Amounts :
           bought_sku(key, relation, amount)
    \/ \E key \in TagKeys, relation \in Relation, value \in TagValues :
           tag(key, relation, value)
    \/ \E relation \in Relation, lang \in LangCodes : language(relation, lang)
    \/ \E relation \in Relation, version \in Versions : app_version(relation, version)
    \/ \E radius \in Radii, lat \in Lats, long \in Longs : location(radius, lat, long)
    \/ \E country_code \in CountryCodes : country(country_code)
    \/ and_
    \/ or_
    \/ to_json

Spec == Init /\ [][Next]_vars

\* the calls on a Notification that fill its per-language maps
NextNotification ==
    \/ \E lang_code \in Langs, message \in Messages : add_content(lang_code, message)
    \/ \E lang_code \in Langs, heading \in Messages : add_heading(lang_code, heading)
    \/ \E lang_code \in Langs, subtitle \in Messages : add_subtitle(lang_code, subtitle)
    \/ \E json_content \in JsonInputs : add_contents(json_content)
    \/ \E json_heading \in JsonInputs : add_headings(json_heading)
    \/ \E json_subtitles \in JsonInputs : add_subtitles(json_subtitles)

SpecNotification == Init /\ [][NextNotification]_vars

(***************************************************************************)
(* What the documentation says: the relations each method documents in its *)
(* docstring (":param relation:"), and the relation-compatibility table of *)
(* the specification (the same sets by field name, with country fixed to   *)
(* Equal).                                                                 *)
(***************************************************************************)
DocumentedRelations(op) ==
    CASE op \in {"last_session", "first_session", "session_time"} ->
             {"GreaterThan", "LowerThan"}
      [] op \in {"session_count", "app_version"} ->
             {"GreaterThan", "LowerThan", "Equal", "NotEqual"}
      [] op \in {"amount_spent", "bought_sku"} ->
             {"GreaterThan", "LowerThan", "Equal"}
      [] op = "language" -> {"Equal", "NotEqual"}
      [] op = "tag" -> Relation

DocumentedOps ==
    {"last_session", "first_session", "session_count", "session_time",
     "amount_spent", "bought_sku", "tag", "language", "app_version"}
ValidatingOps == DocumentedOps \ {"tag"}
PerFieldOps == DocumentedOps \cup {"country", "location"}

TableFields == (DocumentedOps \ {"bought_sku"}) \cup {"country"}
Table(field) == IF field = "country" THEN {"Equal"} ELSE DocumentedRelations(field)

\* reading a dict
HasKey(d, k) == \E i \in 1..Len(d) : d[i][1] = k
Get(d, k) == d[CHOOSE i \in 1..Len(d) : d[i][1] = k][2]
IsPredicate(d) == HasKey(d, "field") /\ HasKey(d, "relation") /\ HasKey(d, "value")

\* the last call raised
Raised == outcome \in {"Exception", "TypeError"}
\* the last call appended exactly one term and left the earlier ones alone
AppendedOne ==
    /\ Len(values) = Len(before) + 1
    /\ SubSeq(values, 1, Len(before)) = before

OperatorAnd == << <<"operator", PyStr("AND")>> >>
OperatorOr  == << <<"operator", PyStr("OR")>> >>

\* C1: a call of a documented field method with a relation of its documented
\* set (tag: any relation, with a non-empty key) does not raise and appends
\* exactly one term at the end, the earlier terms unchanged.
C1_ValidRelationAppendsOneTerm ==
    ( /\ lastOp \in DocumentedOps
      /\ args.relation[1] \in DocumentedRelations(lastOp)
      /\ lastOp = "tag" => args.key[1] # "" )
    => (~Raised /\ AppendedOne)

\* C2: a call of a validating method with a relation outside its accepted
\* set raises the validation error at the call and leaves the term sequence
\* as it was.
C2_InvalidRelationRaises ==
    ( /\ lastOp \in ValidatingOps
      /\ args.relation[1] \notin DocumentedRelations(lastOp) )
    => (outcome = "Exception" /\ values = before)

C2_Witness ==
    /\ lastOp = "language"
    /\ args.relation = Some("GreaterThan")
    /\ outcome = "Exception"
    /\ Len(values) = 1
    /\ values = before

\* C3: every per-field method that succeeds returns the builder it was
\* called on.
C3_PerFieldMethodReturnsSelf ==
    (lastOp \in PerFieldOps /\ ~Raised) => outcome = "self"

\* C4: tag(tagKey, relation, value) appends one predicate term with field
\* "tag", key tagKey, the symbol of the relation and the value.
C4_TagAppendsKeyedTerm ==
    lastOp = "tag" =>
        /\ ~Raised
        /\ AppendedOne
        /\ LET t == values[Len(values)]
           IN  /\ IsPredicate(t)
               /\ HasKey(t, "key")
               /\ Get(t, "field") = PyStr("tag")
               /\ Get(t, "key") = PyStr(args.key[1])
               /\ Get(t, "relation") = PyStr(RelationValue(args.relation[1]))
               /\ Get(t, "value") = args.value[1]

\* C5: every predicate term whose field is a name of the relation table
\* carries a relation the table accepts for that field.
C5_TableRespected ==
    \A i \in 1..Len(values) :
        (IsPredicate(values[i]) /\ Get(values[i], "field").s \in TableFields)
        => Get(values[i], "relation").s \in
               {RelationValue(r) : r \in Table(Get(values[i], "field").s)}

\* the term a call of method op appends has the shape of that method's terms
TermOfCall(t, op) ==
    CASE op = "and_" -> t = OperatorAnd
      [] op = "or_" -> t = OperatorOr
      [] op = "location" ->
             Len(t) = 3 /\ t[1][1] = "radius" /\ t[2][1] = "lat" /\ t[3][1] = "long"
      [] op = "bought_sku" -> IsPredicate(t) /\ Get(t, "field").s \in SkuKeys
      [] OTHER -> IsPredicate(t) /\ Get(t, "field") = PyStr(op)

\* the strings of items from the i-th on, joined by ", "
RECURSIVE JoinFrom(_, _)
JoinFrom(items, i) ==
    IF i > Len(items) THEN ""
    ELSE IF i = Len(items) THEN items[i]
    ELSE items[i] \o ", " \o JoinFrom(items, i + 1)

ExampleChainJson ==
    "[{\"field\": \"session_count\", \"relation\": \">\", \"value\": 10}, "
    \o "{\"operator\": \"AND\"}, "
    \o "{\"field\": \"session_time\", \"relation\": \"<\", \"value\": 2000}]"

\* C6: the term sequence holds one term per call that succeeded, in the
\* order of the calls, and nothing for a call that raised; the serialized
\* array is the terms' renderings in that order: [] for the empty builder,
\* and predicate, {"operator": "AND"}, predicate for
\* session_count(GreaterThan, 10), and_, session_time(LowerThan, 2000).
C6_OneElementPerTermInCallOrder ==
    /\ Len(values) = Len(log)
    /\ \A i \in 1..Len(values) : TermOfCall(values[i], log[i])
    /\ Raised => values = before
    /\ outcome = "str" =>
           out = "[" \o JoinFrom([i \in 1..Len(values) |-> DumpsDict(values[i])], 1) \o "]"
    /\ (outcome = "str" /\ log = <<>>) => out = "[]"
    /\ ( /\ outcome = "str"
         /\ log = <<"session_count", "and_", "session_time">>
         /\ Get(values[1], "relation") = PyStr(">")
         /\ Get(values[1], "value") = PyInt(10)
         /\ Get(values[3], "relation") = PyStr("<") )
       => out = ExampleChainJson

C6_Witness ==
    /\ lastOp = "to_json"
    /\ log = <<"session_count", "and_", "session_time">>
    /\ out = ExampleChainJson

\* C7: to_json never raises and leaves the term sequence unchanged, and a
\* to_json call that directly follows a to_json call returns the same string.
C7_ToJsonIsPureProjection ==
    /\ [](lastOp = "to_json" => (outcome = "str" /\ values = before))
    /\ [][(lastOp = "to_json" /\ lastOp' = "to_json")
              => (out' = out /\ values' = values)]_vars

C7_Witness ==
    /\ lastOp = "to_json"
    /\ repeat = MaxRepeat
    /\ Len(values) = MaxTerms
    /\ out = ToJson(values)

\* C8: country(countryCode) never raises and appends exactly one predicate
\* term with field "country", relation "=" and value countryCode; no term
\* of the sequence with field "country" carries a relation other than "=",
\* whatever calls put it there.
C8_CountryAlwaysEqual ==
    /\ lastOp = "country" =>
           /\ outcome = "self"
           /\ values = Append(before, << <<"field", PyStr("country")>>,
                                         <<"relation", PyStr("=")>>,
                                         <<"value", args.value[1]>> >>)
    /\ \A i \in 1..Len(values) :
           (IsPredicate(values[i]) /\ Get(values[i], "field") = PyStr("country"))
           => Get(values[i], "relation") = PyStr("=")

\* C9: and_ and or_ never fail, whatever the sequence holds: each appends
\* exactly one operator term at the end and returns the builder, and each
\* can be called in every state in which calls are explored.
C9_OperatorInsertionUnvalidated ==
    /\ lastOp = "and_" => (outcome = "self" /\ values = Append(before, OperatorAnd))
    /\ lastOp = "or_" => (outcome = "self" /\ values = Append(before, OperatorOr))
    /\ Len(values) < MaxTerms => (ENABLED and_ /\ ENABLED or_)

\* a leading operator directly followed by a second, trailing one, serialized
C9_Witness ==
    /\ lastOp = "to_json"
    /\ values = <<OperatorAnd, OperatorOr>>
    /\ log = <<"and_", "or_">>
    /\ out = "[{\"operator\": \"AND\"}, {\"operator\": \"OR\"}]"

\* C10: after a sequence of add_content (add_heading, add_subtitle) calls,
\* with no bulk call on the map, the map holds, for every language code ever
\* added, the message of the most recent call for that code.
C10_LanguageMapsAccumulate ==
    \A name \in MapKeys \ bulk :
        \A lang_code \in DOMAIN hist[name] :
            /\ name \in DOMAIN data
            /\ lang_code \in DOMAIN data[name]
            /\ data[name][lang_code] = hist[name][lang_code]
====
